---- MODULE Spec2Model ----
(***************************************************************************)
(* Model of utils/db.py: the default document templates (db_models,        *)
(* global_db_models), the recursive merge update_values, and the           *)
(* get_data / update_data / delete_data / query_data operations of the     *)
(* three backends LocalDatabase (tinymongo), OldLocalDatabase (mongita)    *)
(* and MongoDatabase (motor), with MongoDatabase.update_from_json.         *)
(*                                                                         *)
(* Four specifications share the state:                                    *)
(*   Spec        whole calls on registered kinds, one after the other      *)
(*   SpecCalls   whole calls, with query_data, the kind "default" in the   *)
(*               local scope and documents of any "ver"                    *)
(*   SpecImport  update_from_json, step by step                            *)
(*   SpecRace    get_data / update_data of two callers, one engine call    *)
(*               at a time                                                 *)
(*                                                                         *)
(* Python values are tagged: [t |-> "N"] numbers, [t |-> "S"] the other    *)
(* scalars (None, booleans, strings), [t |-> "L"] lists, [t |-> "M"]       *)
(* mappings.  A document is a function from its keys to tagged values.     *)
(* Version numbers are scaled by ten (1.7 is 17) so that they are          *)
(* integers and keep their order.                                          *)
(***************************************************************************)
EXTENDS Integers, Sequences, FiniteSets, TLC

VARIABLES
    backend,            \* which BaseDB subclass was constructed at start-up
    store,              \* _connect[collection][db_name]: the stored documents
    db_models,          \* the module-level dict db_models
    global_db_models,   \* the module-level dict global_db_models
    last,               \* the call that just returned (history)
    prev,               \* the call before it, when it had the same target
    nops,               \* number of calls made so far
    imp,                \* update_from_json: ./local_dbs, its position, its trace
    tasks               \* callers whose get_data / update_data is in progress

vars == <<backend, store, db_models, global_db_models, last, prev, nops, imp, tasks>>

(***************************************************************************)
(* Bounds.                                                                 *)
(***************************************************************************)
MaxOps == 4

\* the ids the calls use: two guilds, one user
Ids(db_name) == IF db_name = "guilds" THEN {1, 2} ELSE {1}

(***************************************************************************)
(* Python values.                                                          *)
(***************************************************************************)
N(n) == [t |-> "N", v |-> n]
S(s) == [t |-> "S", v |-> s]
L(q) == [t |-> "L", v |-> q]
M(f) == [t |-> "M", v |-> f]

None == S("None")
False == S("False")
True == S("True")
EmptyDict == [k \in {} |-> None]

IsMapping(x) == x.t = "M"
IsList(x) == x.t = "L"

\* str(id_)
Str(i) == ToString(i)

(***************************************************************************)
(* class DBModel and the two template registries as they are when the      *)
(* module has been imported.                                               *)
(***************************************************************************)
DBModel == [guilds |-> "guilds", users |-> "users", default |-> "default"]

InitDbModels ==
    (DBModel.guilds :>
        [ver |-> N(17),
         player_controller |-> M([channel |-> None,
                                  message_id |-> None,
                                  skin |-> None,
                                  static_skin |-> None,
                                  fav_links |-> M(EmptyDict)]),
         check_other_bots_in_vc |-> False,
         enable_prefixed_commands |-> True,
         djroles |-> L(<<>>)])
    @@
    (DBModel.users :>
        [ver |-> N(10),
         fav_links |-> M(EmptyDict)])

InitGlobalDbModels ==
    (DBModel.users :>
        [ver |-> N(11),
         fav_links |-> M(EmptyDict),
         token |-> S("")])
    @@
    (DBModel.guilds :>
        [ver |-> N(12),
         prefix |-> S(""),
         global_skin |-> False,
         player_skin |-> None,
         player_skin_static |-> None,
         custom_skins |-> M(EmptyDict),
         custom_skins_static |-> M(EmptyDict)])
    @@
    (DBModel.default :>
        [ver |-> N(10),
         extra_tokens |-> M(EmptyDict)])

(***************************************************************************)
(* update_values(d, u).  The loop runs over the items of u: a mapping      *)
(* value is merged into d.get(k, {}), a list value is skipped, any other   *)
(* value is assigned to d[k].  The result is d after the loop.             *)
(***************************************************************************)
\* variant: a value of u is assigned only where d has no value yet
RECURSIVE update_values_default_wins(_, _)
update_values_default_wins(d, u) ==
    LET assigned == {k \in DOMAIN u : ~IsList(u[k])}
    IN  [k \in DOMAIN d \cup assigned |->
            IF k \in assigned /\ IsMapping(u[k])
            THEN M(update_values_default_wins(
                       IF k \in DOMAIN d THEN d[k].v ELSE EmptyDict, u[k].v))
            ELSE IF k \in DOMAIN d THEN d[k] ELSE u[k]]

\* variant: the loop runs over the keys of d instead of the items of u
RECURSIVE update_values_template_keys(_, _)
update_values_template_keys(d, u) ==
    [k \in DOMAIN d |->
        IF k \in DOMAIN u /\ ~IsList(u[k])
        THEN IF IsMapping(u[k]) /\ IsMapping(d[k])
             THEN M(update_values_template_keys(d[k].v, u[k].v))
             ELSE u[k]
        ELSE d[k]]

RECURSIVE update_values(_, _)
update_values(d, u) ==
    LET assigned == {k \in DOMAIN u : ~IsList(u[k])}
    IN  [k \in DOMAIN d \cup assigned |->
            IF k \in assigned
            THEN IF IsMapping(u[k])
                 THEN M(update_values(IF k \in DOMAIN d THEN d[k].v ELSE EmptyDict,
                                      u[k].v))
                 ELSE u[k]
            ELSE d[k]]

(***************************************************************************)
(* The calls the callers make.  A call names the collection and the        *)
(* registry it passes as default_model (None selects db_models); the       *)
(* "global" collection goes with global_db_models, as in get_secret_data.  *)
(***************************************************************************)
Backends == {"LocalDatabase", "OldLocalDatabase", "MongoDatabase"}

Scopes ==
    {[collection |-> "local", default_model |-> "db_models"],
     [collection |-> "global", default_model |-> "global_db_models"]}

DbNames == {DBModel.guilds, DBModel.users}

Containers == {sc.collection : sc \in Scopes} \X DbNames

\* update_data, delete_data and query_data subscript _connect[collection][db_name]
\* with any db_name: "default" is a member of DBModel that db_models lacks
StoreContainers == Containers \cup {<<"local", DBModel.default>>}

\* the callers of get_data / update_data whose steps can interleave
Tasks == {"A", "B"}

\* a directory entry of ./local_dbs: f[:-5] and the rest of the name
NoFile == [stem |-> "", ext |-> ""]

NoImport ==
    [pc |-> "idle", staging |-> {}, backups |-> {}, todo |-> {}, f |-> NoFile,
     kinds |-> <<>>, db_name |-> "", entries |-> <<>>, log |-> <<>>]

\* a caller with no call in progress
IdleTask ==
    [pc |-> "idle", op |-> "none", found |-> <<>>, data |-> <<>>, ret |-> <<>>,
     raised |-> "none", during |-> <<>>, fin |-> FALSE]

NoTasks == [t \in Tasks |-> IdleTask]

\* default_model[db_name], after "if not default_model: default_model = db_models"
default_model(sc) ==
    IF sc.default_model = "global_db_models" THEN global_db_models ELSE db_models

(***************************************************************************)
(* Documents the callers hand to update_data.  For every key a document    *)
(* shares with its template the value has the template's kind (number,     *)
(* scalar, list or mapping); documents may lack template keys and may      *)
(* carry keys of older releases.                                           *)
(***************************************************************************)
LocalGuildStale ==
    [ver |-> N(15),
     player_controller |-> M([channel |-> S("123"),
                              skin |-> S("classic"),
                              old_pc_key |-> S("pc"),
                              fav_links |-> M([song |-> S("url")])]),
     check_other_bots_in_vc |-> True,
     djroles |-> L(<<7>>),
     old_scalar |-> S("old"),
     old_list |-> L(<<1>>),
     old_map |-> M([a |-> S("1")])]

LocalGuildCurrent ==
    [ver |-> N(17),
     player_controller |-> M([channel |-> S("456"),
                              message_id |-> S("m1"),
                              skin |-> None,
                              static_skin |-> None,
                              fav_links |-> M(EmptyDict)]),
     check_other_bots_in_vc |-> False,
     enable_prefixed_commands |-> False,
     djroles |-> L(<<9>>)]

GlobalGuildStale ==
    [ver |-> N(10),
     prefix |-> S("!!")]

GlobalGuildCurrent ==
    [ver |-> N(12),
     prefix |-> S("?"),
     global_skin |-> True,
     player_skin |-> S("mini"),
     player_skin_static |-> None,
     custom_skins |-> M([s1 |-> S("x")]),
     custom_skins_static |-> M(EmptyDict)]

LocalUserCurrent ==
    [ver |-> N(10),
     fav_links |-> M([mix |-> S("url2")])]

GlobalUserStale ==
    [ver |-> N(10),
     fav_links |-> M([mix |-> S("url2")])]

GlobalUserCurrent ==
    [ver |-> N(11),
     fav_links |-> M(EmptyDict),
     token |-> S("tok")]

InputDocs(collection, db_name) ==
    IF collection = "local"
    THEN IF db_name = DBModel.guilds
         THEN {LocalGuildStale, LocalGuildCurrent}
         ELSE {LocalUserCurrent}
    ELSE IF db_name = DBModel.guilds
         THEN {GlobalGuildStale, GlobalGuildCurrent}
         ELSE {GlobalUserStale, GlobalUserCurrent}

(***************************************************************************)
(* The collection primitives of the three engines.  A container is the     *)
(* sequence of its documents in insertion order.                           *)
(***************************************************************************)
Matches(c, id) == {i \in 1..Len(c) : c[i]["_id"] = S(id)}

First(c, id) == CHOOSE i \in Matches(c, id) : \A j \in Matches(c, id) : i <= j

\* find_one({"_id": id_}): the first match, or None (the empty sequence here)
find_one(c, id) == IF Matches(c, id) = {} THEN <<>> ELSE <<c[First(c, id)]>>

\* variant: the document is stored twice
insert_one_twice(c, doc) == Append(Append(c, doc), doc)

insert_one(c, doc) == Append(c, doc)

\* {'$set': data}: the top-level fields of data are assigned, the others kept
set_fields(doc, data) == data @@ doc

\* delete_one({'_id': str(id_)})
delete_one(c, id) ==
    IF Matches(c, id) = {} THEN c
    ELSE [i \in 1..(Len(c) - 1) |-> IF i < First(c, id) THEN c[i] ELSE c[i + 1]]

\* tinymongo update_one: every match gets the $set fields
tiny_update_one(c, id, data) ==
    [i \in 1..Len(c) |-> IF i \in Matches(c, id) THEN set_fields(c[i], data) ELSE c[i]]

\* variant: the match is patched with the fields of data instead of replaced
replace_one_upsert_patch(c, id, data) ==
    IF Matches(c, id) = {} THEN Append(c, ("_id" :> S(id)) @@ data)
    ELSE [c EXCEPT ![First(c, id)] = set_fields(c[First(c, id)], data)]

\* mongita replace_one(..., upsert=True): the match becomes data, keeping _id
replace_one_upsert(c, id, data) ==
    LET doc == ("_id" :> S(id)) @@ data
    IN  IF Matches(c, id) = {} THEN Append(c, doc)
        ELSE [c EXCEPT ![First(c, id)] = doc]

\* motor update_one(..., {'$set': data}, upsert=True)
update_one_upsert(c, id, data) ==
    IF Matches(c, id) = {} THEN Append(c, set_fields("_id" :> S(id), data))
    ELSE [c EXCEPT ![First(c, id)] = set_fields(c[First(c, id)], data)]

(***************************************************************************)
(* The stale branch of get_data:                                           *)
(*     data = update_values(dict(default_model[db_name]), data)            *)
(*     data["ver"] = default_model[db_name]["ver"]                         *)
(* dict(...) copies the top level of the template only, so the nested      *)
(* mappings update_values merges into are the template's own objects.      *)
(***************************************************************************)
\* variant: the merged document keeps the stored "ver"
migrated_keep_ver(T, u) == update_values(T, u)

\* the document the stale branch builds from template T and stored document u
migrated(T, u) == [update_values(T, u) EXCEPT !["ver"] = T["ver"]]

\* the template after that call: its nested mappings hold the merge results
template_after_migration(T, u) ==
    [k \in DOMAIN T |->
        IF IsMapping(T[k]) /\ k \in DOMAIN u /\ IsMapping(u[k])
        THEN M(update_values(T[k].v, u[k].v))
        ELSE T[k]]

(***************************************************************************)
(* update_data of each backend on one container: the new container and     *)
(* the number of inserts and updates the engine performed.                 *)
(***************************************************************************)
\* variant: the insert is not conditional on the update having matched nothing
Local_update_data_always_insert(c, id, data) ==
    [c |-> insert_one(tiny_update_one(c, id, data), ("_id" :> S(id)) @@ data),
     ins |-> 1,
     upd |-> IF Matches(c, id) # {} THEN 1 ELSE 0]

Local_update_data(c, id, data) ==
    IF Matches(c, id) # {}
    THEN [c |-> tiny_update_one(c, id, data), ins |-> 0, upd |-> 1]
    ELSE [c |-> insert_one(c, ("_id" :> S(id)) @@ data), ins |-> 1, upd |-> 0]

OldLocal_update_data(c, id, data) ==
    [c |-> replace_one_upsert(c, id, data),
     ins |-> IF Matches(c, id) = {} THEN 1 ELSE 0,
     upd |-> IF Matches(c, id) = {} THEN 0 ELSE 1]

Mongo_update_data(c, id, data) ==
    [c |-> update_one_upsert(c, id, data),
     ins |-> IF Matches(c, id) = {} THEN 1 ELSE 0,
     upd |-> IF Matches(c, id) = {} THEN 0 ELSE 1]

(***************************************************************************)
(* History: the call that just returned, and the one before it when it     *)
(* addressed the same (collection, db_name, id).                           *)
(***************************************************************************)
NoCall == [op |-> "none", data |-> <<>>, ret |-> <<>>, inserts |-> 0, updates |-> 0]

Target(r) == <<r.collection, r.db_name, r.id>>

Recorded(op, sc, db_name, id, data, ret, ins, upd, exc) ==
    /\ last' = [op |-> op,
                collection |-> sc.collection,
                default_model |-> sc.default_model,
                db_name |-> db_name,
                id |-> id,
                data |-> data,
                pre |-> find_one(store[<<sc.collection, db_name>>], Str(id)),
                preStore |-> store,
                preModel |-> IF db_name \in DOMAIN default_model(sc)
                             THEN default_model(sc)[db_name]
                             ELSE EmptyDict,
                ret |-> ret,
                inserts |-> ins,
                updates |-> upd,
                raised |-> exc]
    /\ prev' = IF last.op # "none" /\ Target(last) = <<sc.collection, db_name, id>>
               THEN [op |-> last.op, data |-> last.data, ret |-> last.ret,
                     inserts |-> last.inserts, updates |-> last.updates]
               ELSE NoCall
    /\ nops' = nops + 1

\* the call returns
Record(op, sc, db_name, id, data, ret, ins, upd) ==
    Recorded(op, sc, db_name, id, data, ret, ins, upd, "none")

\* variant: a document holding only the _id is inserted before the exception
Raise_after_insert(op, sc, db_name, id, exc) ==
    /\ store' = [store EXCEPT ![<<sc.collection, db_name>>] =
                     insert_one(@, "_id" :> S(Str(id)))]
    /\ UNCHANGED <<db_models, global_db_models>>
    /\ Recorded(op, sc, db_name, id, <<>>, <<>>, 0, 0, exc)

\* the call ends with an exception that reaches the caller; nothing was written
Raise(op, sc, db_name, id, exc) ==
    /\ UNCHANGED <<store, db_models, global_db_models>>
    /\ Recorded(op, sc, db_name, id, <<>>, <<>>, 0, 0, exc)

\* get_data subscripts default_model[db_name] on a miss (dict(default_model[db_name]))
\* and data["ver"] then default_model[db_name] on a hit: either subscript can
\* raise KeyError, and does so before anything is written
get_data_KeyError(sc, db_name, found) ==
    \/ db_name \notin DOMAIN default_model(sc)
    \/ Len(found) = 1 /\ "ver" \notin DOMAIN found[1]

SetModel(sc, db_name, T) ==
    /\ db_models' = IF sc.default_model = "db_models"
                    THEN [db_models EXCEPT ![db_name] = T]
                    ELSE db_models
    /\ global_db_models' = IF sc.default_model = "global_db_models"
                           THEN [global_db_models EXCEPT ![db_name] = T]
                           ELSE global_db_models

(***************************************************************************)
(* LocalDatabase                                                           *)
(***************************************************************************)
LocalGetData(sc, db_name, id) ==
    /\ backend = "LocalDatabase"
    /\ nops < MaxOps
    /\ LET cn == <<sc.collection, db_name>>
           T == default_model(sc)[db_name]
           found == find_one(store[cn], Str(id))
       IN  IF get_data_KeyError(sc, db_name, found)
           THEN Raise("get", sc, db_name, id, "KeyError")
           ELSE IF Len(found) = 0
           THEN LET data == ("_id" :> S(Str(id))) @@ T
                IN  /\ store' = [store EXCEPT ![cn] = insert_one(store[cn], data)]
                    /\ UNCHANGED <<db_models, global_db_models>>
                    /\ Record("get", sc, db_name, id, <<>>, <<data>>, 1, 0)
           ELSE IF found[1]["ver"].v < T["ver"].v
           THEN LET data == migrated(T, found[1])
                    w == Local_update_data(store[cn], Str(id), data)
                IN  /\ store' = [store EXCEPT ![cn] = w.c]
                    /\ SetModel(sc, db_name, template_after_migration(T, found[1]))
                    /\ Record("get", sc, db_name, id, <<>>, <<data>>, w.ins, w.upd)
           ELSE /\ UNCHANGED <<store, db_models, global_db_models>>
                /\ Record("get", sc, db_name, id, <<>>, found, 0, 0)
    /\ UNCHANGED <<backend, imp, tasks>>

LocalUpdateData(sc, db_name, id, data) ==
    /\ backend = "LocalDatabase"
    /\ nops < MaxOps
    /\ LET cn == <<sc.collection, db_name>>
           w == Local_update_data(store[cn], Str(id), data)
       IN  /\ store' = [store EXCEPT ![cn] = w.c]
           /\ Record("update", sc, db_name, id, <<data>>, <<>>, w.ins, w.upd)
    /\ UNCHANGED <<backend, db_models, global_db_models, imp, tasks>>

LocalDeleteData(sc, db_name, id) ==
    /\ backend = "LocalDatabase"
    /\ nops < MaxOps
    /\ LET cn == <<sc.collection, db_name>>
       IN  /\ store' = [store EXCEPT ![cn] = delete_one(store[cn], Str(id))]
           /\ Record("delete", sc, db_name, id, <<>>, <<>>, 0, 0)
    /\ UNCHANGED <<backend, db_models, global_db_models, imp, tasks>>

(***************************************************************************)
(* OldLocalDatabase                                                        *)
(***************************************************************************)
OldLocalGetData(sc, db_name, id) ==
    /\ backend = "OldLocalDatabase"
    /\ nops < MaxOps
    /\ LET cn == <<sc.collection, db_name>>
           T == default_model(sc)[db_name]
           found == find_one(store[cn], Str(id))
       IN  IF get_data_KeyError(sc, db_name, found)
           THEN Raise("get", sc, db_name, id, "KeyError")
           ELSE IF Len(found) = 0
           THEN LET data == ("_id" :> S(Str(id))) @@ T
                IN  /\ store' = [store EXCEPT ![cn] = insert_one(store[cn], data)]
                    /\ UNCHANGED <<db_models, global_db_models>>
                    /\ Record("get", sc, db_name, id, <<>>, <<data>>, 1, 0)
           ELSE IF found[1]["ver"].v < T["ver"].v
           THEN LET data == migrated(T, found[1])
                    w == OldLocal_update_data(store[cn], Str(id), data)
                IN  /\ store' = [store EXCEPT ![cn] = w.c]
                    /\ SetModel(sc, db_name, template_after_migration(T, found[1]))
                    /\ Record("get", sc, db_name, id, <<>>, <<data>>, w.ins, w.upd)
           ELSE /\ UNCHANGED <<store, db_models, global_db_models>>
                /\ Record("get", sc, db_name, id, <<>>, found, 0, 0)
    /\ UNCHANGED <<backend, imp, tasks>>

OldLocalUpdateData(sc, db_name, id, data) ==
    /\ backend = "OldLocalDatabase"
    /\ nops < MaxOps
    /\ LET cn == <<sc.collection, db_name>>
           w == OldLocal_update_data(store[cn], Str(id), data)
       IN  /\ store' = [store EXCEPT ![cn] = w.c]
           /\ Record("update", sc, db_name, id, <<data>>, <<>>, w.ins, w.upd)
    /\ UNCHANGED <<backend, db_models, global_db_models, imp, tasks>>

OldLocalDeleteData(sc, db_name, id) ==
    /\ backend = "OldLocalDatabase"
    /\ nops < MaxOps
    /\ LET cn == <<sc.collection, db_name>>
       IN  /\ store' = [store EXCEPT ![cn] = delete_one(store[cn], Str(id))]
           /\ Record("delete", sc, db_name, id, <<>>, <<>>, 0, 0)
    /\ UNCHANGED <<backend, db_models, global_db_models, imp, tasks>>

(***************************************************************************)
(* MongoDatabase                                                           *)
(***************************************************************************)
\* variant: a miss is seeded and inserted, as the two embedded backends do
MongoGetData_seeding(sc, db_name, id) ==
    /\ backend = "MongoDatabase"
    /\ nops < MaxOps
    /\ LET cn == <<sc.collection, db_name>>
           T == default_model(sc)[db_name]
           found == find_one(store[cn], Str(id))
       IN  IF get_data_KeyError(sc, db_name, found)
           THEN Raise("get", sc, db_name, id, "KeyError")
           ELSE IF Len(found) = 0
           THEN LET data == ("_id" :> S(Str(id))) @@ T
                IN  /\ store' = [store EXCEPT ![cn] = insert_one(store[cn], data)]
                    /\ UNCHANGED <<db_models, global_db_models>>
                    /\ Record("get", sc, db_name, id, <<>>, <<data>>, 1, 0)
           ELSE IF found[1]["ver"].v < T["ver"].v
           THEN LET data == migrated(T, found[1])
                    w == Mongo_update_data(store[cn], Str(id), data)
                IN  /\ store' = [store EXCEPT ![cn] = w.c]
                    /\ SetModel(sc, db_name, template_after_migration(T, found[1]))
                    /\ Record("get", sc, db_name, id, <<>>, <<data>>, w.ins, w.upd)
           ELSE /\ UNCHANGED <<store, db_models, global_db_models>>
                /\ Record("get", sc, db_name, id, <<>>, found, 0, 0)
    /\ UNCHANGED <<backend, imp, tasks>>

MongoGetData(sc, db_name, id) ==
    /\ backend = "MongoDatabase"
    /\ nops < MaxOps
    /\ LET cn == <<sc.collection, db_name>>
           T == default_model(sc)[db_name]
           found == find_one(store[cn], Str(id))
       IN  IF get_data_KeyError(sc, db_name, found)
           THEN Raise("get", sc, db_name, id, "KeyError")
           ELSE IF Len(found) = 0
           THEN /\ UNCHANGED <<store, db_models, global_db_models>>
                /\ Record("get", sc, db_name, id, <<>>, <<T>>, 0, 0)
           ELSE IF found[1]["ver"].v < T["ver"].v
           THEN LET data == migrated(T, found[1])
                    w == Mongo_update_data(store[cn], Str(id), data)
                IN  /\ store' = [store EXCEPT ![cn] = w.c]
                    /\ SetModel(sc, db_name, template_after_migration(T, found[1]))
                    /\ Record("get", sc, db_name, id, <<>>, <<data>>, w.ins, w.upd)
           ELSE /\ UNCHANGED <<store, db_models, global_db_models>>
                /\ Record("get", sc, db_name, id, <<>>, found, 0, 0)
    /\ UNCHANGED <<backend, imp, tasks>>

MongoUpdateData(sc, db_name, id, data) ==
    /\ backend = "MongoDatabase"
    /\ nops < MaxOps
    /\ LET cn == <<sc.collection, db_name>>
           w == Mongo_update_data(store[cn], Str(id), data)
       IN  /\ store' = [store EXCEPT ![cn] = w.c]
           /\ Record("update", sc, db_name, id, <<data>>, <<>>, w.ins, w.upd)
    /\ UNCHANGED <<backend, db_models, global_db_models, imp, tasks>>

MongoDeleteData(sc, db_name, id) ==
    /\ backend = "MongoDatabase"
    /\ nops < MaxOps
    /\ LET cn == <<sc.collection, db_name>>
       IN  /\ store' = [store EXCEPT ![cn] = delete_one(store[cn], Str(id))]
           /\ Record("delete", sc, db_name, id, <<>>, <<>>, 0, 0)
    /\ UNCHANGED <<backend, db_models, global_db_models, imp, tasks>>

(***************************************************************************)
(* The specification.                                                      *)
(***************************************************************************)
Init ==
    /\ backend \in Backends
    /\ store = [cn \in StoreContainers |-> <<>>]
    /\ db_models = InitDbModels
    /\ global_db_models = InitGlobalDbModels
    /\ last = [op |-> "none",
               collection |-> "local",
               default_model |-> "db_models",
               db_name |-> DBModel.guilds,
               id |-> 0,
               data |-> <<>>,
               pre |-> <<>>,
               preStore |-> [cn \in StoreContainers |-> <<>>],
               preModel |-> InitDbModels[DBModel.guilds],
               ret |-> <<>>,
               inserts |-> 0,
               updates |-> 0,
               raised |-> "none"]
    /\ prev = NoCall
    /\ nops = 0
    /\ imp = NoImport
    /\ tasks = NoTasks

Next ==
    \E sc \in Scopes, db_name \in DbNames : \E id \in Ids(db_name) :
        \/ LocalGetData(sc, db_name, id)
        \/ LocalDeleteData(sc, db_name, id)
        \/ OldLocalGetData(sc, db_name, id)
        \/ OldLocalDeleteData(sc, db_name, id)
        \/ MongoGetData(sc, db_name, id)
        \/ MongoDeleteData(sc, db_name, id)
        \/ \E data \in InputDocs(sc.collection, db_name) :
              \/ LocalUpdateData(sc, db_name, id, data)
              \/ OldLocalUpdateData(sc, db_name, id, data)
              \/ MongoUpdateData(sc, db_name, id, data)

Spec == Init /\ [][Next]_vars

(***************************************************************************)
(* Vocabulary of the properties.                                           *)
(***************************************************************************)
IsScalar(x) == x.t \in {"N", "S"}

Without(d, key) == [k \in DOMAIN d \ {key} |-> d[k]]

LastContainer == <<last.collection, last.db_name>>

\* what is stored under the id of the last call now
StoredNow == find_one(store[LastContainer], Str(last.id))

\* the template of the last call as the source declares it
DeclaredTemplate ==
    IF last.default_model = "global_db_models"
    THEN InitGlobalDbModels[last.db_name]
    ELSE InitDbModels[last.db_name]

\* the last call was a get_data that found a document behind the template
Migrating ==
    /\ last.op = "get"
    /\ Len(last.pre) = 1
    /\ last.pre[1]["ver"].v < last.preModel["ver"].v

\* r holds the scalar of u wherever T and u both hold a scalar, at any depth
RECURSIVE RetainsScalars(_, _, _)
RetainsScalars(T, u, r) ==
    \A k \in DOMAIN T \cap DOMAIN u :
        /\ (IsScalar(T[k]) /\ IsScalar(u[k])) => (k \in DOMAIN r /\ r[k] = u[k])
        /\ (IsMapping(T[k]) /\ IsMapping(u[k])) =>
              /\ k \in DOMAIN r
              /\ IsMapping(r[k])
              /\ RetainsScalars(T[k].v, u[k].v, r[k].v)

\* r has every key of T, at any depth
RECURSIVE HasKeys(_, _)
HasKeys(T, r) ==
    \A k \in DOMAIN T :
        /\ k \in DOMAIN r
        /\ IsMapping(T[k]) => (IsMapping(r[k]) /\ HasKeys(T[k].v, r[k].v))

Converged(T, u, r) ==
    /\ r["ver"] = T["ver"]
    /\ RetainsScalars(T, Without(u, "ver"), r)
    /\ HasKeys(T, r)

\* C1: a get_data that finds a document whose ver is below the template's
\* returns, and leaves stored, a document with the template's ver, with every
\* scalar the stored document held for a key that is scalar in the template,
\* and with every key of the template (on each of the three backends).
MigrationConverges ==
    Migrating =>
        /\ Len(last.ret) = 1
        /\ Len(StoredNow) = 1
        /\ Converged(last.preModel, last.pre[1], last.ret[1])
        /\ Converged(last.preModel, last.pre[1], StoredNow[1])
        /\ Converged(DeclaredTemplate, last.pre[1], last.ret[1])
        /\ Converged(DeclaredTemplate, last.pre[1], StoredNow[1])

MigrationConvergesWitness ==
    /\ Migrating
    /\ backend = "OldLocalDatabase"
    /\ Without(last.pre[1], "_id") = LocalGuildStale
    /\ last.ret[1]["ver"] = N(17)
    /\ last.ret[1]["check_other_bots_in_vc"] = True
    /\ last.ret[1]["enable_prefixed_commands"] = True

SharedScalarKeys ==
    {k \in (DOMAIN last.preModel \cap DOMAIN last.pre[1]) \ {"ver"} :
        IsScalar(last.preModel[k]) /\ IsScalar(last.pre[1][k])}

\* C2 as stated: after a migrating get_data every scalar key that the template
\* and the stored document share holds the template's value.
TemplateScalarWins ==
    Migrating => \A k \in SharedScalarKeys : last.ret[1][k] = last.preModel[k]

\* C2 as amended: after a migrating get_data every scalar key other than ver
\* that the template and the stored document share holds the stored value,
\* in the returned and in the written-back document; ver holds the template's.
StoredScalarWins ==
    Migrating =>
        /\ last.ret[1]["ver"] = last.preModel["ver"]
        /\ \A k \in SharedScalarKeys :
              /\ last.ret[1][k] = last.pre[1][k]
              /\ StoredNow[1][k] = last.pre[1][k]

StoredScalarWinsWitness ==
    /\ Migrating
    /\ last.collection = "global"
    /\ last.preModel["prefix"] = S("")
    /\ last.pre[1]["prefix"] = S("!!")
    /\ last.ret[1]["prefix"] = S("!!")
    /\ last.ret[1]["ver"] = N(12)

\* C3: the templates of db_models and global_db_models, nested mappings
\* included, always equal their values at process start.
TemplatesAreConstant ==
    /\ db_models = InitDbModels
    /\ global_db_models = InitGlobalDbModels

\* C4: after a migrating get_data every key of the template for which the
\* stored document held a list holds that list in the migrated document.
ListsSurviveMigration ==
    Migrating =>
        \A k \in DOMAIN last.preModel \cap DOMAIN last.pre[1] :
            IsList(last.pre[1][k]) => last.ret[1][k] = last.pre[1][k]

\* r has no key that u has and T lacks (_id aside), at any depth
RECURSIVE NoStoredOnlyKeys(_, _, _)
NoStoredOnlyKeys(T, u, r) ==
    /\ \A k \in DOMAIN u \ (DOMAIN T \cup {"_id"}) : k \notin DOMAIN r
    /\ \A k \in DOMAIN u \cap DOMAIN T \cap DOMAIN r :
          (IsMapping(T[k]) /\ IsMapping(u[k]) /\ IsMapping(r[k])) =>
              NoStoredOnlyKeys(T[k].v, u[k].v, r[k].v)

\* C5 as stated: after a migrating get_data no key that the stored document
\* had and the template lacks is in the returned or the written-back document.
StoredOnlyKeysDropped ==
    Migrating =>
        /\ NoStoredOnlyKeys(DeclaredTemplate, last.pre[1], last.ret[1])
        /\ NoStoredOnlyKeys(DeclaredTemplate, last.pre[1], StoredNow[1])

\* r keeps every key of u that T lacks and whose value is no list: a scalar
\* with the value of u, a mapping merged the same way; at any depth
RECURSIVE KeepsStoredOnlyKeys(_, _, _)
KeepsStoredOnlyKeys(T, u, r) ==
    /\ \A k \in DOMAIN u \ DOMAIN T :
          ~IsList(u[k]) =>
              /\ k \in DOMAIN r
              /\ IsScalar(u[k]) => r[k] = u[k]
              /\ IsMapping(u[k]) =>
                    (IsMapping(r[k]) /\ KeepsStoredOnlyKeys(EmptyDict, u[k].v, r[k].v))
    /\ \A k \in DOMAIN u \cap DOMAIN T :
          (IsMapping(T[k]) /\ IsMapping(u[k])) =>
              /\ k \in DOMAIN r
              /\ IsMapping(r[k])
              /\ KeepsStoredOnlyKeys(T[k].v, u[k].v, r[k].v)

\* r has no key that u holds a list for and T lacks, at any depth
RECURSIVE StoredOnlyListsAbsent(_, _, _)
StoredOnlyListsAbsent(T, u, r) ==
    /\ \A k \in DOMAIN u \ DOMAIN T : IsList(u[k]) => k \notin DOMAIN r
    /\ \A k \in DOMAIN u \cap DOMAIN r :
          (IsMapping(u[k]) /\ IsMapping(r[k])) =>
              StoredOnlyListsAbsent(IF k \in DOMAIN T /\ IsMapping(T[k])
                                    THEN T[k].v ELSE EmptyDict,
                                    u[k].v, r[k].v)

\* C5 as amended: after a migrating get_data every key that the stored
\* document had and the template lacks, at the top level or in a nested
\* mapping, is kept in the returned and in the written-back document (a
\* scalar with its stored value, a mapping merged recursively), unless its
\* value is a list: such a key is absent from the returned document.
StoredOnlyKeysKept ==
    Migrating =>
        /\ KeepsStoredOnlyKeys(DeclaredTemplate, last.pre[1], last.ret[1])
        /\ KeepsStoredOnlyKeys(DeclaredTemplate, last.pre[1], StoredNow[1])
        /\ KeepsStoredOnlyKeys(last.preModel, last.pre[1], last.ret[1])
        /\ StoredOnlyListsAbsent(DeclaredTemplate, last.pre[1], last.ret[1])

StoredOnlyKeysKeptWitness ==
    /\ Migrating
    /\ Without(last.pre[1], "_id") = LocalGuildStale
    /\ last.ret[1]["old_scalar"] = S("old")
    /\ last.ret[1]["old_map"] = M([a |-> S("1")])
    /\ last.ret[1]["player_controller"].v["old_pc_key"] = S("pc")
    /\ "old_list" \notin DOMAIN last.ret[1]

\* C6: a get_data that directly follows a delete_data of the same id returns
\* the template as declared at process start (with _id where it was seeded),
\* whatever calls came before.
DeleteThenGetResets ==
    (last.op = "get" /\ prev.op = "delete") =>
        /\ Len(last.ret) = 1
        /\ Without(last.ret[1], "_id") = DeclaredTemplate

Embedded == backend \in {"LocalDatabase", "OldLocalDatabase"}

\* the document a miss seeds: the template with _id = str(id)
SeedOfLast == ("_id" :> S(Str(last.id))) @@ last.preModel

\* C7: on LocalDatabase and OldLocalDatabase a get_data for an id with no
\* stored document performs one insert and no update, the container gains
\* exactly the template with _id = str(id) and nothing else changes; a
\* get_data for the same id directly after it returns the same document and
\* performs no insert and no update.
MissSeedsOnce ==
    (Embedded /\ last.op = "get") =>
        /\ Len(last.pre) = 0 =>
              /\ last.inserts = 1
              /\ last.updates = 0
              /\ last.ret = <<SeedOfLast>>
              /\ store = [last.preStore EXCEPT
                             ![LastContainer] = Append(@, SeedOfLast)]
              /\ Cardinality(Matches(store[LastContainer], Str(last.id))) = 1
        /\ (prev.op = "get" /\ prev.inserts = 1) =>
              /\ last.ret = prev.ret
              /\ last.inserts = 0
              /\ last.updates = 0
              /\ store = last.preStore

MissSeedsOnceWitness ==
    /\ Embedded
    /\ last.op = "get"
    /\ prev.op = "get"
    /\ prev.inserts = 1
    /\ Len(last.pre) = 1
    /\ last.ret = prev.ret

\* C8: on MongoDatabase a get_data for an id with no stored document returns
\* the template of the registry and writes nothing: the storage is the same
\* as before the call and still holds no document for that id.
RemoteMissNotPersisted ==
    (backend = "MongoDatabase" /\ last.op = "get" /\ Len(last.pre) = 0) =>
        /\ last.ret = <<last.preModel>>
        /\ last.inserts = 0
        /\ last.updates = 0
        /\ store = last.preStore
        /\ Len(StoredNow) = 0

RemoteMissNotPersistedWitness ==
    /\ backend = "MongoDatabase"
    /\ last.op = "get"
    /\ prev.op = "get"
    /\ Len(last.pre) = 0
    /\ last.ret = prev.ret
    /\ store[LastContainer] = <<>>

\* data with _id = str(id) of the last call
DataWithId == ("_id" :> S(Str(last.id))) @@ last.data[1]

\* C9 as stated: on OldLocalDatabase and MongoDatabase the document stored
\* after update_data(id, data) has exactly the fields of data plus _id.
FullDocumentReplace ==
    (backend \in {"OldLocalDatabase", "MongoDatabase"} /\ last.op = "update") =>
        /\ Len(StoredNow) = 1
        /\ StoredNow[1] = DataWithId

\* C9 as amended: after update_data(id, data) on OldLocalDatabase the stored
\* document has exactly the fields of data plus _id; on MongoDatabase it has
\* every field of data with data's value and, besides _id, every field of
\* the previously stored document that data does not name.
ReplaceOrPatchOnUpdate ==
    last.op = "update" =>
        /\ Len(StoredNow) = 1
        /\ backend = "OldLocalDatabase" => StoredNow[1] = DataWithId
        /\ backend = "MongoDatabase" =>
              StoredNow[1] = IF Len(last.pre) = 1
                             THEN last.data[1] @@ last.pre[1]
                             ELSE DataWithId

ReplaceOrPatchOnUpdateWitness ==
    /\ backend = "MongoDatabase"
    /\ last.op = "update"
    /\ Len(last.pre) = 1
    /\ \E k \in DOMAIN last.pre[1] \ (DOMAIN last.data[1] \cup {"_id"}) :
          /\ k \in DOMAIN StoredNow[1]
          /\ StoredNow[1][k] = last.pre[1][k]

\* C10: on every backend update_data leaves exactly one document under
\* str(id), and an update_data that directly repeats the previous one (same
\* id, same data) leaves the storage as the first one left it.
IdempotentUpsert ==
    last.op = "update" =>
        /\ Cardinality(Matches(store[LastContainer], Str(last.id))) = 1
        /\ (prev.op = "update" /\ prev.data = last.data) => store = last.preStore

IdempotentUpsertWitness ==
    /\ last.op = "update"
    /\ prev.op = "update"
    /\ prev.data = last.data
    /\ prev.inserts = 1
    /\ last.updates = 1
    /\ backend = "LocalDatabase"

(***************************************************************************)
(* query_data, and calls with the other arguments the signatures admit:    *)
(* the kind "default", which db_models does not register, and documents    *)
(* that carry no "ver" or a "ver" above the template's.                     *)
(***************************************************************************)
LocalScope == [collection |-> "local", default_model |-> "db_models"]

CallKinds == {DBModel.guilds, DBModel.default}

\* a partial document, without "ver"
LocalGuildPatch ==
    [check_other_bots_in_vc |-> True]

\* a document whose "ver" is above db_models["guilds"]["ver"]
LocalGuildNewer ==
    [ver |-> N(18),
     check_other_bots_in_vc |-> True,
     enable_prefixed_commands |-> True,
     djroles |-> L(<<>>)]

LocalDefaultDoc ==
    [ver |-> N(10),
     extra_tokens |-> M(EmptyDict)]

CallDocs(db_name) ==
    IF db_name = DBModel.guilds
    THEN {LocalGuildCurrent, LocalGuildPatch, LocalGuildNewer}
    ELSE {LocalDefaultDoc}

\* the filter argument: None (the empty sequence here) or a mapping
QueryFilters(db_name) ==
    IF db_name = DBModel.guilds
    THEN {<<>>, <<[check_other_bots_in_vc |-> True]>>}
    ELSE {<<>>}

\* filter or {}
filter_or_empty(filter) == IF Len(filter) = 0 THEN EmptyDict ELSE filter[1]

\* a document matches when it holds every field of the filter with that value
filter_matches(doc, f) == \A k \in DOMAIN f : k \in DOMAIN doc /\ doc[k] = f[k]

\* find(filter): the matching documents in storage order
find(c, f) ==
    LET hit(doc) == filter_matches(doc, f)
    IN  SelectSeq(c, hit)

LocalQueryData(sc, db_name, filter) ==
    /\ backend = "LocalDatabase"
    /\ nops < MaxOps
    /\ LET cn == <<sc.collection, db_name>>
       IN  Record("query", sc, db_name, 0, filter,
                  find(store[cn], filter_or_empty(filter)), 0, 0)
    /\ UNCHANGED <<backend, store, db_models, global_db_models, imp, tasks>>

OldLocalQueryData(sc, db_name, filter) ==
    /\ backend = "OldLocalDatabase"
    /\ nops < MaxOps
    /\ LET cn == <<sc.collection, db_name>>
       IN  Record("query", sc, db_name, 0, filter,
                  find(store[cn], filter_or_empty(filter)), 0, 0)
    /\ UNCHANGED <<backend, store, db_models, global_db_models, imp, tasks>>

\* "return await ...find(filter or {})": motor's find() returns a cursor at
\* once, and a cursor is not awaitable, so the await raises TypeError
MongoQueryData(sc, db_name, filter) ==
    /\ backend = "MongoDatabase"
    /\ nops < MaxOps
    /\ Raise("query", sc, db_name, 0, "TypeError")
    /\ UNCHANGED <<backend, imp, tasks>>

NextCalls ==
    \E db_name \in CallKinds : \E id \in Ids(db_name) :
        \/ LocalGetData(LocalScope, db_name, id)
        \/ LocalDeleteData(LocalScope, db_name, id)
        \/ OldLocalGetData(LocalScope, db_name, id)
        \/ OldLocalDeleteData(LocalScope, db_name, id)
        \/ MongoGetData(LocalScope, db_name, id)
        \/ MongoDeleteData(LocalScope, db_name, id)
        \/ \E data \in CallDocs(db_name) :
              \/ LocalUpdateData(LocalScope, db_name, id, data)
              \/ OldLocalUpdateData(LocalScope, db_name, id, data)
              \/ MongoUpdateData(LocalScope, db_name, id, data)
        \/ \E filter \in QueryFilters(db_name) :
              \/ LocalQueryData(LocalScope, db_name, filter)
              \/ OldLocalQueryData(LocalScope, db_name, filter)
              \/ MongoQueryData(LocalScope, db_name, filter)

SpecCalls == Init /\ [][NextCalls]_vars

\* the registry the scope of the last call reads, as the source declares it
DeclaredRegistry ==
    IF last.default_model = "global_db_models" THEN InitGlobalDbModels ELSE InitDbModels

\* C11: every stored document of a registered kind has a "ver" field, and its
\* value is not above the "ver" of the kind's template, in every reachable state
StoredVersionInvariant ==
    \A cn \in Containers : \A i \in 1..Len(store[cn]) :
        LET T == IF cn[1] = "global" THEN InitGlobalDbModels[cn[2]]
                 ELSE InitDbModels[cn[2]]
        IN  /\ "ver" \in DOMAIN store[cn][i]
            /\ store[cn][i]["ver"].v <= T["ver"].v

\* the filter the last query_data was called with, after "filter or {}"
LastFilter == filter_or_empty(last.data)

\* C12: on every backend query_data returns; with the empty filter it returns
\* every document stored in the container (each was written by update_data and
\* not deleted since), and with a filter it returns no document that holds a
\* different value for one of the filter's fields
QueryRoundTrip ==
    last.op = "query" =>
        /\ last.raised = "none"
        /\ \A i \in 1..Len(store[LastContainer]) :
              LET doc == store[LastContainer][i]
                  returned == \E j \in 1..Len(last.ret) : last.ret[j] = doc
              IN  /\ LastFilter = EmptyDict => returned
                  /\ (\E k \in DOMAIN LastFilter \cap DOMAIN doc : doc[k] # LastFilter[k])
                        => ~returned

\* the same on the two embedded backends only
EmbeddedQueryRoundTrip == Embedded => QueryRoundTrip

EmbeddedQueryRoundTripWitness ==
    /\ Embedded
    /\ last.op = "query"
    /\ LastFilter # EmptyDict
    /\ Len(last.ret) = 1
    /\ Len(store[LastContainer]) = 2

\* C15: on every backend a get_data for a kind the registry lacks ends with an
\* error at the caller, whether or not a document is stored under the id, and
\* leaves the storage (and the registries) as they were
UnknownKindGetFails ==
    (last.op = "get" /\ last.db_name \notin DOMAIN DeclaredRegistry) =>
        /\ last.raised = "KeyError"
        /\ last.ret = <<>>
        /\ store = last.preStore
        /\ db_models = InitDbModels
        /\ global_db_models = InitGlobalDbModels

\* a get_data for "default" in the local scope while a document is stored there
UnknownKindGetFailsWitness ==
    /\ last.op = "get"
    /\ last.db_name = DBModel.default
    /\ last.collection = "local"
    /\ Len(last.pre) = 1
    /\ last.raised = "KeyError"
    /\ backend = "MongoDatabase"

\* the same with nothing stored under the id
UnknownKindMissWitness ==
    /\ last.op = "get"
    /\ last.db_name = DBModel.default
    /\ Len(last.pre) = 0
    /\ last.raised = "KeyError"
    /\ Embedded

(***************************************************************************)
(* MongoDatabase.update_from_json.  ./local_dbs holds dump files; a dump is *)
(* a JSON object {db_name: {id: document}}, kept here as the sequence of   *)
(* its items in file order.  imp.log is the trace of what the run did.     *)
(***************************************************************************)
BackupsDir == [stem |-> "backups", ext |-> ""]
LocalJson == [stem |-> "local", ext |-> ".json"]
GlobalJson == [stem |-> "global", ext |-> ".json"]
EmptyJson == [stem |-> "empty", ext |-> ".json"]

DumpFiles == {LocalJson, GlobalJson, EmptyJson}

\* json.load(file): two kinds with entries around one without; a first entry
\* that is a string where a document is expected; no entries at all
FileData(f) ==
    IF f = LocalJson
    THEN << <<DBModel.guilds, << <<"1", M(LocalGuildCurrent)>>,
                                 <<"2", M(LocalGuildStale)>> >> >>,
            <<DBModel.users, <<>> >>,
            <<DBModel.default, << <<"1", M(LocalDefaultDoc)>> >> >> >>
    ELSE IF f = GlobalJson
    THEN << <<DBModel.guilds, << <<"1", S("corrupt")>>,
                                 <<"2", M(GlobalGuildCurrent)>> >> >>,
            <<DBModel.users, << <<"1", M(GlobalUserCurrent)>> >> >> >>
    ELSE << <<DBModel.guilds, <<>> >>,
            <<DBModel.users, <<>> >> >>

\* for f in os.listdir("./local_dbs"): the listing is taken once
ImportStart ==
    /\ imp.pc = "idle"
    /\ imp' = [imp EXCEPT !.pc = "files", !.todo = imp.staging]
    /\ UNCHANGED <<backend, store, db_models, global_db_models, last, prev, nops, tasks>>

\* the next directory entry: skipped unless it ends with ".json", else loaded
ImportNextFile ==
    /\ imp.pc = "files"
    /\ \E f \in imp.todo :
          imp' = IF f.ext # ".json"
                 THEN [imp EXCEPT !.todo = @ \ {f}]
                 ELSE [imp EXCEPT !.todo = @ \ {f},
                                  !.f = f,
                                  !.kinds = FileData(f),
                                  !.pc = "kinds",
                                  !.log = Append(@, [e |-> "open", f |-> f])]
    /\ UNCHANGED <<backend, store, db_models, global_db_models, last, prev, nops, tasks>>

\* for db_name, db_data in data.items(): if not db_data: continue
ImportNextKind ==
    /\ imp.pc = "kinds"
    /\ imp' = IF imp.kinds = <<>>
              THEN [imp EXCEPT !.pc = "files",
                               !.log = Append(@, [e |-> "close", f |-> imp.f])]
              ELSE IF Head(imp.kinds)[2] = <<>>
              THEN [imp EXCEPT !.kinds = Tail(@)]
              ELSE [imp EXCEPT !.kinds = Tail(@),
                               !.db_name = Head(imp.kinds)[1],
                               !.entries = Head(imp.kinds)[2],
                               !.pc = "entries"]
    /\ UNCHANGED <<backend, store, db_models, global_db_models, last, prev, nops, tasks>>

\* await self.update_data(id_=id_, data=data, db_name=db_name, collection=f[:-5]);
\* {'$set': data} with a data that is no document is rejected, and the
\* exception leaves update_from_json (no try around the call)
ImportUpsert ==
    /\ imp.pc = "entries"
    /\ imp.entries # <<>>
    /\ LET id == Head(imp.entries)[1]
           data == Head(imp.entries)[2]
           cn == <<imp.f.stem, imp.db_name>>
       IN  IF IsMapping(data)
           THEN /\ store' = [store EXCEPT ![cn] = Mongo_update_data(@, id, data.v).c]
                /\ imp' = [imp EXCEPT !.entries = Tail(@),
                                      !.log = Append(@, [e |-> "upsert", f |-> imp.f,
                                                         db_name |-> imp.db_name,
                                                         id |-> id])]
           ELSE /\ UNCHANGED store
                /\ imp' = [imp EXCEPT !.pc = "raised"]
    /\ UNCHANGED <<backend, db_models, global_db_models, last, prev, nops, tasks>>

\* try: shutil.move(...) except: traceback.print_exc(), after the entries of
\* one kind.  The move fails when the file is no longer in ./local_dbs and
\* can fail for reasons of the file system otherwise.
ImportMove ==
    /\ imp.pc = "entries"
    /\ imp.entries = <<>>
    /\ \E ok \in {imp.f \in imp.staging, FALSE} :
          imp' = [imp EXCEPT !.pc = "kinds",
                             !.staging = IF ok THEN @ \ {imp.f} ELSE @,
                             !.backups = IF ok THEN @ \cup {imp.f} ELSE @,
                             !.log = Append(@, [e |-> "move", f |-> imp.f, ok |-> ok])]
    /\ UNCHANGED <<backend, store, db_models, global_db_models, last, prev, nops, tasks>>

\* the listing is exhausted: update_from_json returns
ImportReturn ==
    /\ imp.pc = "files"
    /\ imp.todo = {}
    /\ imp' = [imp EXCEPT !.pc = "done"]
    /\ UNCHANGED <<backend, store, db_models, global_db_models, last, prev, nops, tasks>>

\* a MongoDatabase at start-up; os.makedirs has made ./local_dbs/backups
InitImport ==
    /\ backend = "MongoDatabase"
    /\ store = [cn \in StoreContainers |-> <<>>]
    /\ db_models = InitDbModels
    /\ global_db_models = InitGlobalDbModels
    /\ last = [op |-> "none",
               collection |-> "local",
               default_model |-> "db_models",
               db_name |-> DBModel.guilds,
               id |-> 0,
               data |-> <<>>,
               pre |-> <<>>,
               preStore |-> [cn \in StoreContainers |-> <<>>],
               preModel |-> InitDbModels[DBModel.guilds],
               ret |-> <<>>,
               inserts |-> 0,
               updates |-> 0,
               raised |-> "none"]
    /\ prev = NoCall
    /\ nops = 0
    /\ \E files \in SUBSET DumpFiles :
          imp = [NoImport EXCEPT !.staging = files \cup {BackupsDir}]
    /\ tasks = NoTasks

NextImport ==
    \/ ImportStart
    \/ ImportNextFile
    \/ ImportNextKind
    \/ ImportUpsert
    \/ ImportMove
    \/ ImportReturn

SpecImport == InitImport /\ [][NextImport]_vars

\* the events of the run's trace
ImportEvents == {imp.log[i] : i \in 1..Len(imp.log)}

\* the registry get_data would use for the collection a file is imported into
RegistryOf(collection) ==
    IF collection = "global" THEN InitGlobalDbModels ELSE InitDbModels

\* C13: update_from_json writes no document for a kind the schema registry
\* lacks, and upserts every entry of the registered kinds of a file it has
\* gone through
UnregisteredKindsSkipped ==
    /\ \A ev \in ImportEvents :
          ev.e = "upsert" => ev.db_name \in DOMAIN RegistryOf(ev.f.stem)
    /\ \A ev \in ImportEvents :
          ev.e = "close" =>
              \A i \in 1..Len(FileData(ev.f)) :
                  LET kind == FileData(ev.f)[i]
                  IN  kind[1] \in DOMAIN RegistryOf(ev.f.stem) =>
                          \A j \in 1..Len(kind[2]) :
                              Matches(store[<<ev.f.stem, kind[1]>>], kind[2][j][1]) # {}

\* C14: update_from_json does not end with an exception when the upsert of
\* an entry fails; it goes on and returns
ImportSurvivesEntryFailure == imp.pc # "raised"

\* C16: a move of a file is attempted only when every entry of every kind of
\* the file has been upserted (no upsert of the file follows a move of it),
\* and at most one move is attempted per file
ArchiveAfterAllUpserts ==
    \A i \in 1..Len(imp.log) :
        imp.log[i].e = "move" =>
            \A j \in (i + 1)..Len(imp.log) :
                ~(imp.log[j].e \in {"upsert", "move"} /\ imp.log[j].f = imp.log[i].f)

\* C17: when update_from_json has returned, a move was attempted for every
\* file it opened (the file is archived, or the failure of its move was
\* logged), a file whose kinds are all empty included
ParsedFileLeavesStaging ==
    imp.pc = "done" =>
        \A ev \in ImportEvents :
            ev.e = "open" => \E mv \in ImportEvents : mv.e = "move" /\ mv.f = ev.f

(***************************************************************************)
(* Concurrent callers.  get_data and update_data are several engine calls  *)
(* with no lock around them.  On MongoDatabase each engine call is         *)
(* awaited, so another task can run between find_one and the write-back;   *)
(* on the two embedded backends the engine calls are synchronous and are   *)
(* interleaved when the callers run in different threads or processes.     *)
(* Every call here addresses id 1 of (local, guilds).                      *)
(*   tasks[t].pc      "idle", "got" (get_data after find_one, a write      *)
(*                    pending), "insert" (update_data after an update_one  *)
(*                    that matched nothing)                                *)
(*   tasks[t].during  the document another task's update_data wrote while  *)
(*                    t was between find_one and its write-back            *)
(*   tasks[t].fin     t's call ended in the step just taken                *)
(***************************************************************************)
RaceContainer == <<LocalScope.collection, DBModel.guilds>>

RaceId == Str(1)

RaceDocs == {LocalGuildStale, LocalGuildCurrent}

\* task t moves to rec; wrote is the document an update_data call of t has
\* just finished writing (or the empty sequence)
Step(t, rec, wrote) ==
    tasks' = [u \in Tasks |->
                 IF u = t THEN rec
                 ELSE [tasks[u] EXCEPT
                          !.fin = FALSE,
                          !.during = IF wrote # <<>> /\ tasks[u].pc = "got"
                                        /\ tasks[u].found # <<>>
                                     THEN wrote ELSE @]]

\* the call of t ends: it returns ret or raises exc
Ended(t, ret, exc) ==
    [tasks[t] EXCEPT !.pc = "idle", !.ret = ret, !.raised = exc, !.fin = TRUE]

\* insert_one of the two embedded engines: an _id that is already stored is
\* refused with DuplicateKeyError
InsertOrRaise(t, data) ==
    IF Matches(store[RaceContainer], RaceId) # {}
    THEN /\ UNCHANGED store
         /\ Step(t, Ended(t, <<>>, "DuplicateKeyError"), <<>>)
    ELSE /\ store' = [store EXCEPT ![RaceContainer] = insert_one(@, data)]
         /\ Step(t, Ended(t, IF tasks[t].op = "get" THEN <<data>> ELSE <<>>, "none"),
                 IF tasks[t].op = "update" THEN <<Without(data, "_id")>> ELSE <<>>)

\* update_data(id_, data) up to its first engine call: one upsert on
\* MongoDatabase and OldLocalDatabase; update_one on LocalDatabase, with the
\* insert_one left to do when nothing matched
UpdateDataFirst(t, rec, data) ==
    LET c == store[RaceContainer]
    IN  IF backend = "LocalDatabase" /\ Matches(c, RaceId) = {}
        THEN /\ UNCHANGED store
             /\ Step(t, [rec EXCEPT !.pc = "insert", !.data = <<data>>, !.fin = FALSE], <<>>)
        ELSE /\ store' = [store EXCEPT ![RaceContainer] =
                             IF backend = "LocalDatabase"
                             THEN Local_update_data(c, RaceId, data).c
                             ELSE IF backend = "OldLocalDatabase"
                             THEN OldLocal_update_data(c, RaceId, data).c
                             ELSE Mongo_update_data(c, RaceId, data).c]
             /\ Step(t, [rec EXCEPT !.pc = "idle", !.raised = "none", !.fin = TRUE],
                     IF rec.op = "update" THEN <<data>> ELSE <<>>)

\* get_data up to and including find_one; it returns at once on a fresh hit
\* and, on MongoDatabase, on a miss
GetDataFind(t) ==
    /\ tasks[t].pc = "idle"
    /\ nops < MaxOps
    /\ LET found == find_one(store[RaceContainer], RaceId)
           T == default_model(LocalScope)[DBModel.guilds]
           rec == [IdleTask EXCEPT !.op = "get", !.found = found]
       IN  IF get_data_KeyError(LocalScope, DBModel.guilds, found)
           THEN Step(t, [rec EXCEPT !.raised = "KeyError", !.fin = TRUE], <<>>)
           ELSE IF Len(found) = 0 /\ backend = "MongoDatabase"
           THEN Step(t, [rec EXCEPT !.ret = <<T>>, !.fin = TRUE], <<>>)
           ELSE IF Len(found) = 1 /\ ~(found[1]["ver"].v < T["ver"].v)
           THEN Step(t, [rec EXCEPT !.ret = found, !.fin = TRUE], <<>>)
           ELSE Step(t, [rec EXCEPT !.pc = "got"], <<>>)
    /\ nops' = nops + 1
    /\ UNCHANGED <<backend, store, db_models, global_db_models, last, prev, imp>>

\* the miss branch of the embedded backends after find_one returned None
GetDataSeed(t) ==
    /\ tasks[t].pc = "got"
    /\ tasks[t].found = <<>>
    /\ InsertOrRaise(t, ("_id" :> S(RaceId)) @@ default_model(LocalScope)[DBModel.guilds])
    /\ UNCHANGED <<backend, db_models, global_db_models, last, prev, nops, imp>>

\* the stale branch after find_one: the merge, then update_data with the
\* merged copy of the document that was read
GetDataWriteBack(t) ==
    /\ tasks[t].pc = "got"
    /\ tasks[t].found # <<>>
    /\ LET T == default_model(LocalScope)[DBModel.guilds]
           data == migrated(T, tasks[t].found[1])
       IN  /\ SetModel(LocalScope, DBModel.guilds,
                       template_after_migration(T, tasks[t].found[1]))
           /\ UpdateDataFirst(t, [tasks[t] EXCEPT !.ret = <<data>>], data)
    /\ UNCHANGED <<backend, last, prev, nops, imp>>

UpdateDataCall(t, data) ==
    /\ tasks[t].pc = "idle"
    /\ nops < MaxOps
    /\ UpdateDataFirst(t, [IdleTask EXCEPT !.op = "update"], data)
    /\ nops' = nops + 1
    /\ UNCHANGED <<backend, db_models, global_db_models, last, prev, imp>>

\* LocalDatabase.update_data after an update_one without a match:
\* data["_id"] = id_; insert_one(data)
UpdateDataInsert(t) ==
    /\ tasks[t].pc = "insert"
    /\ InsertOrRaise(t, ("_id" :> S(RaceId)) @@ tasks[t].data[1])
    /\ UNCHANGED <<backend, db_models, global_db_models, last, prev, nops, imp>>

NextRace ==
    \E t \in Tasks :
        \/ GetDataFind(t)
        \/ GetDataSeed(t)
        \/ GetDataWriteBack(t)
        \/ \E data \in RaceDocs : UpdateDataCall(t, data)
        \/ UpdateDataInsert(t)

SpecRace == Init /\ [][NextRace]_vars

\* C18: on the two embedded backends, concurrent get_data / update_data calls
\* for an id without a stored document never fail (a duplicate key on insert
\* is answered by fetching the other caller's document) and leave at most one
\* document with that _id
SeedRaceTolerated ==
    Embedded =>
        /\ \A t \in Tasks : tasks[t].raised = "none"
        /\ Cardinality(Matches(store[RaceContainer], RaceId)) <= 1

\* C19: on MongoDatabase, when a get_data that read a stale document has
\* finished its write-back and another task's update_data(id, D) completed
\* between the read and the write-back, the stored document holds D's values
WriteBackKeepsConcurrentUpdate ==
    \A t \in Tasks :
        (/\ backend = "MongoDatabase"
         /\ tasks[t].fin
         /\ tasks[t].op = "get"
         /\ tasks[t].during # <<>>) =>
            LET stored == find_one(store[RaceContainer], RaceId)
                D == tasks[t].during[1]
            IN  /\ Len(stored) = 1
                /\ \A k \in DOMAIN D : k \in DOMAIN stored[1] /\ stored[1][k] = D[k]

====
